---------------------------- MODULE Spec2Model ----------------------------
(***************************************************************************)
(* A model of the rp-lockbox control client:                               *)
(*   - rp_lockbox.RedPitaya: the socket session (connect, close, tx_txt,   *)
(*     rx_txt) and the catalog of SCPI set/get commands;                   *)
(*   - widgets.PIDGroup / RelockGroup / OutputGroup: the GUI setters with  *)
(*     their reconnect-and-retry handlers, and the getters used by         *)
(*     update_parameters;                                                  *)
(*   - gui.MainWindow: the address prompt at start-up, the construction    *)
(*     of the widget groups, reconnect, the update/save/load buttons.      *)
(* The GUI is single threaded: one call is in progress at a time, and pc   *)
(* is the position of that call.  The network and the user are the         *)
(* environment: the outcome of connect/send/recv and the answers to the    *)
(* address prompt are chosen nondeterministically.  Spec is the GUI         *)
(* program; StubSpec is a RedPitaya object used directly against a peer    *)
(* that answers each query at once, for the encoding of commands and the   *)
(* decoding of responses; TimeoutSpec is a RedPitaya object constructed    *)
(* with a timeout, whose send may accept part of the bytes and whose recv  *)
(* may time out before the device has answered.                            *)
(***************************************************************************)
EXTENDS Integers, Sequences, FiniteSets, TLC

\* ------------------------------------------------------------------ bounds
\* sockets created by the session that may be open at the same time
MaxOpen == 2
\* send attempts followed within one GUI call
MaxAttempts == 3
\* answers to the address prompt followed within one GUI call
MaxPrompts == 2
\* length of a response payload (before the delimiter)
MaxLen == 1
\* chunksize argument of rx_txt (4096 by default), scaled down
ChunkSize == 1
\* recv calls followed within one rx_txt call
MaxReads == 4

\* ------------------------------------------------------- program constants
\* "the input/output channel to use (1 or 2)"
NumChannels == 2
Channels == 1..NumChannels

\* RedPitaya.delimiter = '\r\n', as text and as a sequence of characters
delimiter == "\r\n"
CR == "\r"
LF == "\n"
delimiterChars == <<CR, LF>>

\* the addresses a user may type into the prompt
Hosts == {"rp-a", "rp-b"}

\* Qt.Unchecked / Qt.Checked, the int a QCheckBox passes with stateChanged
CheckStates == {0, 2}
\* the spin boxes' values, in tenths (-5 is -0.5, 25 is 2.5)
FloatValues == {-5, 25}
\* QSpinBox (kd) values
IntValues == {0, 7}
\* the entries of combo_box_waveform
Waveforms == {"SINE", "SQUARE", "TRIANGLE", "SAWU", "SAWD"}

\* ----------------------------------------------------------- Python values
PyInt(n) == [t |-> "int", n |-> n, s |-> ""]
PyFloat(tenths) == [t |-> "float", n |-> tenths, s |-> ""]
PyText(s) == [t |-> "str", n |-> 0, s |-> s]

Digit(d) == <<"0", "1", "2", "3", "4", "5", "6", "7", "8", "9">>[d + 1]

RECURSIVE NatStr(_)
NatStr(n) == IF n < 10 THEN Digit(n) ELSE NatStr(n \div 10) \o Digit(n % 10)

\* str() of a Python int
IntStr(n) == IF n < 0 THEN "-" \o NatStr(-n) ELSE NatStr(n)

\* str() of a Python float with one decimal, given in tenths
FloatStr(tenths) ==
    IF tenths < 0
    THEN "-" \o NatStr((-tenths) \div 10) \o "." \o Digit((-tenths) % 10)
    ELSE NatStr(tenths \div 10) \o "." \o Digit(tenths % 10)

\* '{}'.format(v)
Fmt(v) ==
    CASE v.t = "int" -> IntStr(v.n)
      [] v.t = "float" -> FloatStr(v.n)
      [] v.t = "str" -> v.s

\* int(state) as the boolean setters apply it to their argument
IntOf(v) ==
    CASE v.t = "int" -> PyInt(v.n)
      [] v.t = "bool" -> PyInt(v.n)

PyBool(b) == [t |-> "bool", n |-> IF b THEN 1 ELSE 0, s |-> ""]
PyNone == [t |-> "NoneType", n |-> 0, s |-> ""]

\* ------------------------------------------------------------ received text
\* Text that came over the socket is a sequence of pieces: single characters, or
\* words that hold no digit, sign, point or whitespace ("ON", "SINE").
RECURSIVE Join(_)
Join(text) == IF text = <<>> THEN "" ELSE Head(text) \o Join(Tail(text))

RECURSIVE NatChars(_)
NatChars(n) ==
    IF n < 10 THEN <<Digit(n)>> ELSE Append(NatChars(n \div 10), Digit(n % 10))

\* the characters of '{}'.format(v)
FmtChars(v) ==
    CASE v.t = "int" -> IF v.n < 0 THEN <<"-">> \o NatChars(-v.n) ELSE NatChars(v.n)
      [] v.t = "float" ->
            IF v.n < 0
            THEN <<"-">> \o NatChars((-v.n) \div 10) \o <<".", Digit((-v.n) % 10)>>
            ELSE NatChars(v.n \div 10) \o <<".", Digit(v.n % 10)>>
      [] v.t = "str" -> <<v.s>>

\* the characters int() and float() skip at both ends of their argument
Whitespace == {CR, LF, " "}

RECURSIVE LStrip(_)
LStrip(text) ==
    IF text # <<>> /\ Head(text) \in Whitespace THEN LStrip(Tail(text)) ELSE text

RECURSIVE RStrip(_)
RStrip(text) ==
    IF text # <<>> /\ text[Len(text)] \in Whitespace
    THEN RStrip(SubSeq(text, 1, Len(text) - 1))
    ELSE text

Strip(text) == RStrip(LStrip(text))

Digits == {Digit(d) : d \in 0..9}
IsDigits(text) == \A k \in 1..Len(text) : text[k] \in Digits

RECURSIVE NatVal(_)
NatVal(text) ==
    IF text = <<>> THEN 0
    ELSE 10 * NatVal(SubSeq(text, 1, Len(text) - 1))
         + (CHOOSE d \in 0..9 : Digit(d) = text[Len(text)])

Signed(text) == text # <<>> /\ Head(text) \in {"-", "+"}
Unsigned(text) == IF Signed(text) THEN Tail(text) ELSE text
SignOf(text) == IF text # <<>> /\ Head(text) = "-" THEN -1 ELSE 1

ValueError == [exc |-> "ValueError", val |-> PyNone]

\* int(text): optional sign and decimal digits between optional whitespace
int(text) ==
    LET t == Strip(text)
        u == Unsigned(t)
    IN  IF u # <<>> /\ IsDigits(u)
        THEN [exc |-> "none", val |-> PyInt(SignOf(t) * NatVal(u))]
        ELSE ValueError

\* float that answers 0.0 where float raises
float_ZeroOnError(text) ==
    IF Strip(text) # <<>> /\ IsDigits(Strip(text))
    THEN [exc |-> "none", val |-> [t |-> "float", n |-> 10 * NatVal(Strip(text)), s |-> ""]]
    ELSE [exc |-> "none", val |-> [t |-> "float", n |-> 0, s |-> ""]]

\* float that stops at the point
float_WholePart(text) ==
    LET t == Strip(text)
        u == Unsigned(t)
        points == {k \in 1..Len(u) : u[k] = "."}
        p == IF points = {} THEN Len(u) + 1 ELSE CHOOSE k \in points : TRUE
        whole == SubSeq(u, 1, p - 1)
    IN  IF whole # <<>> /\ IsDigits(whole)
        THEN [exc |-> "none", val |-> [t |-> "float", n |-> SignOf(t) * 10 * NatVal(whole),
                                      s |-> ""]]
        ELSE [exc |-> "ValueError", val |-> PyNone]

\* float(text): optional sign, decimal digits with at most one point and at least
\* one digit, between optional whitespace.  The value is kept in tenths; texts
\* with more than one digit after the point, exponents, 'inf' and 'nan' are not
\* among the texts drawn.
float(text) ==
    LET t == Strip(text)
        u == Unsigned(t)
        points == {k \in 1..Len(u) : u[k] = "."}
        p == IF points = {} THEN Len(u) + 1 ELSE CHOOSE k \in points : TRUE
        whole == SubSeq(u, 1, p - 1)
        frac == SubSeq(u, p + 1, Len(u))
    IN  IF Cardinality(points) <= 1 /\ IsDigits(whole) /\ IsDigits(frac)
           /\ whole \o frac # <<>> /\ Len(frac) <= 1
        THEN [exc |-> "none",
              val |-> PyFloat(SignOf(t) * (10 * NatVal(whole) + NatVal(frac)))]
        ELSE ValueError

\* bool(n)
bool(v) == PyBool(v.n # 0)

\* ------------------------------------------------ rp_lockbox: the catalog
\* 'PID:IN{}:OUT{}'.format(num_in, num_out), the head of the PID commands
PidHead(num_in, num_out) == "PID:IN" \o IntStr(num_in) \o ":OUT" \o IntStr(num_out)

\* the boolean setters, which format int(state)
BoolSetters ==
    {"set_output_state", "set_int_reset_state", "set_int_hold_state",
     "set_int_auto_state", "set_inv_state", "set_relock_state"}

\* the format string of a set_* method up to the space before its last '{}', with
\* the channel numbers substituted
SetHead(method, num_in, num_out) ==
    CASE method = "set_output_state" ->
            "OUTPUT" \o IntStr(num_out) \o ":STATE"
      [] method = "set_generator_frequency" ->
            "SOUR" \o IntStr(num_out) \o ":FREQ:FIX"
      [] method = "set_generator_waveform" ->
            "SOUR" \o IntStr(num_out) \o ":FUNC"
      [] method = "set_generator_amplitude" ->
            "SOUR" \o IntStr(num_out) \o ":VOLT"
      [] method = "set_generator_offset" ->
            "SOUR" \o IntStr(num_out) \o ":VOLT:OFFS"
      [] method = "set_setpoint" -> PidHead(num_in, num_out) \o ":SETPoint"
      [] method = "set_kp" -> PidHead(num_in, num_out) \o ":KP"
      [] method = "set_ki" -> PidHead(num_in, num_out) \o ":KI"
      [] method = "set_kd" -> PidHead(num_in, num_out) \o ":KD"
      [] method = "set_int_reset_state" ->
            PidHead(num_in, num_out) \o ":INT:RES"
      [] method = "set_int_hold_state" ->
            PidHead(num_in, num_out) \o ":INT:HOLD"
      [] method = "set_int_auto_state" ->
            PidHead(num_in, num_out) \o ":INT:AUTO"
      [] method = "set_inv_state" -> PidHead(num_in, num_out) \o ":INV"
      [] method = "set_relock_state" ->
            PidHead(num_in, num_out) \o ":REL"
      [] method = "set_relock_stepsize" ->
            PidHead(num_in, num_out) \o ":REL:STEP"
      [] method = "set_relock_minimum" ->
            PidHead(num_in, num_out) \o ":REL:MIN"
      [] method = "set_relock_maximum" ->
            PidHead(num_in, num_out) \o ":REL:MAX"
      [] method = "set_output_minimum" ->
            "OUT" \o IntStr(num_out) \o ":LIM:MIN"
      [] method = "set_output_maximum" ->
            "OUT" \o IntStr(num_out) \o ":LIM:MAX"

\* set_kp :gain: the gain to set (0 to 4096), in tenths
KpRange == 0..40960

\* SetValue of a client that clamps the P gain to its documented range
SetValue_Clamped(method, v) ==
    IF method \in BoolSetters THEN IntOf(v)
    ELSE IF method = "set_kp" /\ v.n \notin KpRange
    THEN PyFloat(IF v.n < 0 THEN 0 ELSE 40960)
    ELSE v

\* the value a set_* method formats into the last '{}'
SetValue(method, v) == IF method \in BoolSetters THEN IntOf(v) ELSE v

\* the text a set_* method of RedPitaya hands to tx_txt
SetCommand(method, num_in, num_out, v) ==
    SetHead(method, num_in, num_out) \o " " \o Fmt(SetValue(method, v))

\* GetCommand of a catalog whose setpoint query uses the short form of the
\* keyword
GetCommand_ShortSetpoint(method, num_in, num_out) ==
    IF method = "get_setpoint"
    THEN PidHead(num_in, num_out) \o ":SETP?"
    ELSE SetHead("set_" \o SubSeq(method, 5, Len(method)), num_in, num_out) \o "?"

\* the text a get_* method of RedPitaya hands to txrx_txt
GetCommand(method, num_in, num_out) ==
    CASE method = "get_output_state" -> "OUTPUT" \o IntStr(num_out) \o ":STATE?"
      [] method = "get_generator_frequency" -> "SOUR" \o IntStr(num_out) \o ":FREQ:FIX?"
      [] method = "get_generator_waveform" -> "SOUR" \o IntStr(num_out) \o ":FUNC?"
      [] method = "get_generator_amplitude" -> "SOUR" \o IntStr(num_out) \o ":VOLT?"
      [] method = "get_generator_offset" -> "SOUR" \o IntStr(num_out) \o ":VOLT:OFFS?"
      [] method = "get_setpoint" -> PidHead(num_in, num_out) \o ":SETPoint?"
      [] method = "get_kp" -> PidHead(num_in, num_out) \o ":KP?"
      [] method = "get_ki" -> PidHead(num_in, num_out) \o ":KI?"
      [] method = "get_kd" -> PidHead(num_in, num_out) \o ":KD?"
      [] method = "get_int_reset_state" -> PidHead(num_in, num_out) \o ":INT:RES?"
      [] method = "get_int_hold_state" -> PidHead(num_in, num_out) \o ":INT:HOLD?"
      [] method = "get_int_auto_state" -> PidHead(num_in, num_out) \o ":INT:AUTO?"
      [] method = "get_inv_state" -> PidHead(num_in, num_out) \o ":INV?"
      [] method = "get_relock_state" -> PidHead(num_in, num_out) \o ":REL?"
      [] method = "get_relock_stepsize" -> PidHead(num_in, num_out) \o ":REL:STEP?"
      [] method = "get_relock_minimum" -> PidHead(num_in, num_out) \o ":REL:MIN?"
      [] method = "get_relock_maximum" -> PidHead(num_in, num_out) \o ":REL:MAX?"
      [] method = "get_output_minimum" -> "OUT" \o IntStr(num_out) \o ":LIM:MIN?"
      [] method = "get_output_maximum" -> "OUT" \o IntStr(num_out) \o ":LIM:MAX?"

\* the set_* and get_* methods of RedPitaya that share a parameter
CatalogPairs ==
    {<<"set_output_state", "get_output_state">>,
     <<"set_generator_frequency", "get_generator_frequency">>,
     <<"set_generator_waveform", "get_generator_waveform">>,
     <<"set_generator_amplitude", "get_generator_amplitude">>,
     <<"set_generator_offset", "get_generator_offset">>,
     <<"set_setpoint", "get_setpoint">>,
     <<"set_kp", "get_kp">>,
     <<"set_ki", "get_ki">>,
     <<"set_kd", "get_kd">>,
     <<"set_int_reset_state", "get_int_reset_state">>,
     <<"set_int_hold_state", "get_int_hold_state">>,
     <<"set_int_auto_state", "get_int_auto_state">>,
     <<"set_inv_state", "get_inv_state">>,
     <<"set_relock_state", "get_relock_state">>,
     <<"set_relock_stepsize", "get_relock_stepsize">>,
     <<"set_relock_minimum", "get_relock_minimum">>,
     <<"set_relock_maximum", "get_relock_maximum">>,
     <<"set_output_minimum", "get_output_minimum">>,
     <<"set_output_maximum", "get_output_maximum">>}

\* the methods that take num_out only
OutputMethods ==
    {"set_output_state", "set_generator_frequency", "set_generator_waveform",
     "set_generator_amplitude", "set_generator_offset", "set_output_minimum",
     "set_output_maximum"}

\* the getters that compare the response with "ON"
OnOffGetters ==
    {"get_int_reset_state", "get_int_hold_state", "get_int_auto_state", "get_inv_state",
     "get_relock_state"}

\* GetValue with every boolean getter comparing the response with "ON"
GetValue_AllOnOff(method, response) ==
    IF method \in OnOffGetters \cup {"get_output_state"}
    THEN [exc |-> "none", val |-> PyBool(Join(response) = "ON")]
    ELSE IF method = "get_generator_waveform"
    THEN [exc |-> "none", val |-> PyText(Join(response))]
    ELSE IF Strip(response) # <<>> /\ IsDigits(Strip(response))
    THEN [exc |-> "none", val |-> PyFloat(10 * NatVal(Strip(response)))]
    ELSE [exc |-> "ValueError", val |-> PyNone]

\* what a get_* method of RedPitaya makes of the text txrx_txt returned: the
\* exception it ends with ("none": it returns) and the value it returns
GetValue(method, response) ==
    CASE method = "get_output_state" ->
            IF int(response).exc = "none"
            THEN [exc |-> "none", val |-> bool(int(response).val)]
            ELSE int(response)
      [] method \in OnOffGetters ->
            [exc |-> "none", val |-> PyBool(Join(response) = "ON")]
      [] method = "get_generator_waveform" ->
            [exc |-> "none", val |-> PyText(Join(response))]
      [] OTHER -> float(response)

\* save_lockbox_config / load_lockbox_config
save_lockbox_config == "LOCK:CONF:SAVE"
load_lockbox_config == "LOCK:CONF:LOAD"

\* --------------------------------------------- widgets: the setter handlers
\* For each setter of a widget group: the RedPitaya method its try block calls
\* and the widget method its except block calls after _warn_and_reconnect.
PIDSetters ==
    [setpoint |-> [calls |-> "set_setpoint", retry |-> "setpoint"],
     kp_gain |-> [calls |-> "set_kp", retry |-> "kp_gain"],
     ki_gain |-> [calls |-> "set_ki", retry |-> "ki_gain"],
     kd_gain |-> [calls |-> "set_kd", retry |-> "kd_gain"],
     reset_state |-> [calls |-> "set_int_reset_state", retry |-> "reset_state"],
     hold_state |-> [calls |-> "set_int_hold_state", retry |-> "hold_state"],
     auto_state |-> [calls |-> "set_int_auto_state", retry |-> "auto_state"],
     inv_state |-> [calls |-> "set_inv_state", retry |-> "inv_state"]]

RelockSetters ==
    [relock_state |-> [calls |-> "set_relock_state", retry |-> "relock_state"],
     relock_min |-> [calls |-> "set_relock_minimum", retry |-> "relock_max"],
     relock_max |-> [calls |-> "set_relock_maximum", retry |-> "relock_max"],
     relock_stepsize |-> [calls |-> "set_relock_stepsize", retry |-> "relock_stepsize"]]

OutputSetters ==
    [output_min |-> [calls |-> "set_output_minimum", retry |-> "output_min"],
     output_max |-> [calls |-> "set_output_maximum", retry |-> "output_max"],
     output_state |-> [calls |-> "set_output_state", retry |-> "output_state"],
     generator_frequency |->
        [calls |-> "set_generator_frequency", retry |-> "generator_frequency"],
     generator_waveform |->
        [calls |-> "set_generator_waveform", retry |-> "generator_waveform"],
     generator_amplitude |->
        [calls |-> "set_generator_amplitude", retry |-> "generator_amplitude"],
     generator_offset |->
        [calls |-> "set_generator_offset", retry |-> "generator_offset"]]

PIDNames == DOMAIN PIDSetters
RelockNames == DOMAIN RelockSetters
OutputNames == DOMAIN OutputSetters
SetterNames == PIDNames \cup RelockNames \cup OutputNames

Handler(m) ==
    IF m \in PIDNames THEN PIDSetters[m]
    ELSE IF m \in RelockNames THEN RelockSetters[m]
    ELSE OutputSetters[m]

\* the values the widget connected to a setter passes with its signal
SignalValues(m) ==
    IF m \in {"reset_state", "hold_state", "auto_state", "inv_state", "relock_state",
              "output_state"}
    THEN {PyInt(c) : c \in CheckStates}
    ELSE IF m = "kd_gain" THEN {PyInt(n) : n \in IntValues}
    ELSE IF m = "generator_waveform" THEN {PyText(w) : w \in Waveforms}
    ELSE {PyFloat(f) : f \in FloatValues}

\* the getters update_parameters of each widget group calls, in order
PIDGetters ==
    <<"get_setpoint", "get_kp", "get_ki", "get_kd", "get_int_reset_state",
      "get_int_hold_state", "get_int_auto_state", "get_inv_state">>
RelockGetters ==
    <<"get_relock_state", "get_relock_minimum", "get_relock_maximum",
      "get_relock_stepsize">>
OutputGetters ==
    <<"get_output_minimum", "get_output_maximum", "get_output_state",
      "get_generator_frequency", "get_generator_waveform", "get_generator_amplitude",
      "get_generator_offset">>

\* ------------------------------------------------------------------ state
VARIABLES
    host,        \* RedPitaya.host
    socket,      \* RedPitaya._socket: "None", or the state of the socket object it holds
    nopen,       \* socket objects the session created that are open (not closed)
    rxq,         \* bytes the device sent on the current connection, not yet read
    pc,          \* position of the GUI thread
    frame,       \* the handler in progress and its arguments
    upd,         \* update_parameters: index of the getter in progress
    attempts,    \* the send attempts of the call in progress: command and success
    reconnects,  \* invocations of the reconnect callback in the call in progress
    prompts,     \* answers the user gave to the address prompt in the call in progress
    cancelled,   \* the user cancelled the address prompt in the call in progress
    result,      \* how the last call ended
    msg,         \* rx_txt: the accumulated text
    chunk,       \* rx_txt: the latest chunk
    reads,       \* rx_txt: recv calls made so far
    resp,        \* the payload the device sent in reply to the latest query
    ret,         \* the latest return value of rx_txt
    got,         \* the latest getter that decoded a response, and what came of it
    stub,        \* the device stub of the round-trip harness: the last set command
    wire         \* the client with a timeout: the bytes its socket accepted that
                 \* the device has not read yet

session == <<host, socket, nopen, rxq>>
gui == <<pc, frame, upd, attempts, reconnects, prompts, cancelled, result>>
rx == <<msg, chunk, reads, resp, ret, got>>
vars == <<host, socket, nopen, rxq, pc, frame, upd, attempts, reconnects, prompts,
          cancelled, result, msg, chunk, reads, resp, ret, got, stub, wire>>

\* the states of a socket object the session holds
SocketStates == {"unconnected", "connected", "reset", "eof"}

NoFrame == [kind |-> "none", m |-> "", orig |-> "", num_in |-> 0, num_out |-> 0,
            v |-> PyInt(0)]
NoResult == [kind |-> "none"]
NoGot == [g |-> "", num_in |-> 0, num_out |-> 0, exc |-> "none", val |-> PyNone]
NoStub == [set |-> "", get |-> "", num_in |-> 0, num_out |-> 0, text |-> <<>>,
           v |-> PyNone]

\* no RedPitaya object is bound to self.red_pitaya
NoHost == ""

\* the characters of a response, and the payloads a device sends: every text of
\* at most MaxLen characters that does not contain the delimiter
Chars == {"1", CR, LF}

HasDelimiter(t) == \E k \in 1..(Len(t) - 1) : t[k] = CR /\ t[k + 1] = LF

Texts(n) == UNION {[1..k -> Chars] : k \in 0..n}

Payloads == {t \in Texts(MaxLen) : ~HasDelimiter(t)}

Min(a, b) == IF a < b THEN a ELSE b

\* s[-2:]
Last2(s) == SubSeq(s, IF Len(s) > 2 THEN Len(s) - 1 ELSE 1, Len(s))

\* s[:-2]
DropLast2(s) == SubSeq(s, 1, Len(s) - 2)

\* ------------------------------------------------ rp_lockbox: the session
\* connect(): a new socket object replaces self._socket, then connects it.
\* ok: the connection attempt succeeds.  collected: the runtime closes the socket
\* object that lost its last reference at once (reference counting); the code
\* itself does not close it.
connect(ok, collected) ==
    /\ collected \/ socket # "None"
    /\ nopen' = IF socket # "None" /\ collected THEN nopen ELSE nopen + 1
    /\ nopen' <= MaxOpen
    /\ socket' = IF ok THEN "connected" ELSE "unconnected"
    /\ rxq' = <<>>

\* del_ without 'self._socket = None': the closed socket object stays referenced
del_KeepsHandle(sock, n) ==
    IF sock # "None"
    THEN [exc |-> "none", socket |-> sock, nopen |-> n - 1]
    ELSE [exc |-> "none", socket |-> "None", nopen |-> n]

\* __del__(): closes the socket if there is one, and forgets it.  Given
\* self._socket and the number of open sockets, the Python exception it ends with
\* ("none": it returns) and the two afterwards.
del_(sock, n) ==
    IF sock # "None"
    THEN [exc |-> "none", socket |-> "None", nopen |-> n - 1]
    ELSE [exc |-> "none", socket |-> "None", nopen |-> n]

\* close(): self.__del__()
close(sock, n) == del_(sock, n)

\* RxDone with the test for the delimiter left out: rx_txt returns with its
\* first chunk
RxDone_AnyChunk(c) == c # <<>>

\* while 1: ... if chunk and chunk[-2:] == self.delimiter: break
RxDone(c) == c # <<>> /\ Last2(c) = delimiterChars

\* the outcomes of self._socket.recv(n) in rx_txt: an exception, or the bytes
\* returned, at least one and at most n of those that arrived; none when the peer
\* closed the connection and everything was read.  With no timeout set, recv
\* blocks while nothing has arrived (no outcome).
RecvOutcomes(sock, q, n) ==
    CASE sock = "None" -> {[exc |-> "AttributeError", data |-> <<>>]}
      [] sock \in {"reset", "unconnected"} -> {[exc |-> "socket.error", data |-> <<>>]}
      [] sock \in {"connected", "eof"} ->
            IF q = <<>>
            THEN IF sock = "eof" THEN {[exc |-> "none", data |-> <<>>]} ELSE {}
            ELSE {[exc |-> "none", data |-> SubSeq(q, 1, k)] : k \in 1..Min(Len(q), n)}

\* the outcomes of self._socket.send(...) in tx_txt
TxOutcomes(sock) ==
    CASE sock = "None" -> {"AttributeError"}
      [] sock = "connected" -> {"ok"}
      [] sock = "eof" -> {"ok", "socket.error"}
      [] sock \in {"reset", "unconnected"} -> {"socket.error"}

\* tx_txt without the delimiter
tx_txt_NoDelimiter(text) == text

\* tx_txt(msg): what goes to the socket
tx_txt(text) == text \o delimiter

\* RecvSize one short: room for the chunk and the first delimiter character
RecvSize_OneShort(chunksize) == chunksize + 1

\* rx_txt: the size it asks recv for
RecvSize(chunksize) == chunksize + Len(delimiterChars)

\* init_ without the call of connect(): the object is constructed unconnected
init_NoConnect(h, ok) == [exc |-> "none", host |-> h, socket |-> "None"]

\* init_ with the error of connect() caught: the object is constructed also
\* when the connection attempt fails
init_CatchesError(h, ok) ==
    [exc |-> "none", host |-> h, socket |-> IF ok THEN "connected" ELSE "unconnected"]

\* __init__(host): what self.red_pitaya = RedPitaya(rp_addr) ends with, given
\* whether the connection attempt of connect() succeeds: the exception ("none":
\* the object is constructed), and the object's host and socket
init_(h, ok) ==
    IF ok
    THEN [exc |-> "none", host |-> h, socket |-> "connected"]
    ELSE [exc |-> "socket.error", host |-> h, socket |-> "unconnected"]

\* The program at its start, before the address prompt of MainWindow.__init__; or
\* with the main window constructed and shown, where the event loop starts (the
\* state Show leads to when nothing went wrong on the way).
Init ==
    /\ \/ /\ host = NoHost
          /\ socket = "None"
          /\ nopen = 0
          /\ pc = "startup"
       \/ /\ host \in Hosts
          /\ socket = "connected"
          /\ nopen = 1
          /\ pc = "idle"
    /\ rxq = <<>>
    /\ got = NoGot
    /\ stub = NoStub
    /\ wire = ""
    /\ frame = NoFrame
    /\ upd = 0
    /\ attempts = <<>>
    /\ reconnects = 0
    /\ prompts = 0
    /\ cancelled = FALSE
    /\ result = NoResult
    /\ msg = <<>>
    /\ chunk = <<>>
    /\ reads = 0
    /\ resp = <<>>
    /\ ret = <<>>

\* the rx_txt locals and the response history are cleared
ClearRx ==
    /\ msg' = <<>>
    /\ chunk' = <<>>
    /\ reads' = 0
    /\ resp' = <<>>
    /\ ret' = <<>>
    /\ got' = NoGot

\* a GUI event starts a handler
Begin(f) ==
    /\ ClearRx
    /\ frame' = f
    /\ attempts' = <<>>
    /\ reconnects' = 0
    /\ prompts' = 0
    /\ cancelled' = FALSE

\* the handler in progress ends: normally, or with an exception leaving it.  An
\* exception that leaves MainWindow.__init__ ends the program.
End(kind) ==
    /\ pc' = IF frame.kind # "init" THEN "idle"
             ELSE IF kind = "ok" THEN "constructed" ELSE "crashed"
    /\ result' = [kind |-> kind]

\* ------------------------------------------------------------ gui: startup
\* MainWindow.__init__, the address prompt and its loop: the user cancels
\* (sys.exit()), or gives an address and a RedPitaya is constructed for it.  When
\* the constructor raises, nothing is bound to self.red_pitaya and the object is
\* destroyed, its __del__ closing the socket; when it returns, the window goes on
\* to construct its widget groups, which call their update_parameters.
Startup ==
    /\ pc = "startup"
    /\ \/ /\ cancelled' = TRUE
          /\ pc' = "exited"
          /\ UNCHANGED <<session, prompts, frame, upd, result>>
       \/ /\ prompts < MaxPrompts
          /\ \E rp_addr \in Hosts, ok \in BOOLEAN :
                LET new == init_(rp_addr, ok)
                IN  IF new.exc = "none"
                    THEN /\ prompts' = 0
                         /\ host' = new.host
                         /\ socket' = new.socket
                         /\ nopen' = IF new.socket = "None" THEN nopen ELSE nopen + 1
                         /\ frame' = [NoFrame EXCEPT !.kind = "init"]
                         /\ upd' = 1
                         /\ pc' = "query"
                         /\ result' = NoResult
                    ELSE /\ prompts' = prompts + 1
                         /\ host' = NoHost
                         /\ socket' = "None"
                         /\ nopen' = del_(new.socket, nopen + 1).nopen
                         /\ result' = [kind |-> new.exc]
                         /\ UNCHANGED <<pc, frame, upd>>
          /\ nopen' <= MaxOpen
          /\ UNCHANGED <<rxq, cancelled>>
    /\ UNCHANGED <<attempts, reconnects, rx, stub, wire>>

\* MAIN_WINDOW.show(); QT_APP.exec_(): the event loop starts
Show ==
    /\ pc = "constructed"
    /\ Begin(NoFrame)
    /\ upd' = 0
    /\ result' = NoResult
    /\ pc' = "idle"
    /\ UNCHANGED <<session, stub, wire>>

\* the window is closed, or an exception left MainWindow.__init__: the program
\* ends and the RedPitaya object is destroyed (__del__)
Quit ==
    /\ pc \in {"idle", "crashed"}
    /\ Begin([NoFrame EXCEPT !.kind = "quit", !.m = socket])
    /\ upd' = 0
    /\ socket' = del_(socket, nopen).socket
    /\ nopen' = del_(socket, nopen).nopen
    /\ rxq' = <<>>
    /\ pc' = "exited"
    /\ result' = NoResult
    /\ UNCHANGED <<host, stub, wire>>

\* ---------------------------------------------------- widgets: the setters
\* a widget's signal calls a setter of its group
CallSetter ==
    /\ pc = "idle"
    /\ \E m \in SetterNames, i \in Channels, o \in Channels :
        \E v \in SignalValues(m) :
            Begin([kind |-> "setter", m |-> m, orig |-> m,
                   num_in |-> IF m \in OutputNames THEN 0 ELSE i, num_out |-> o,
                   v |-> v])
    /\ upd' = 0
    /\ result' = NoResult
    /\ pc' = "try"
    /\ UNCHANGED <<session, stub, wire>>

\* the command of the setter frame: self.red_pitaya.set_...(num_in, num_out, value)
FrameCommand == SetCommand(Handler(frame.m).calls, frame.num_in, frame.num_out, frame.v)

\* the widget method the except block calls after the reconnect callback returned
RetryMethod(m) == Handler(m).retry

\* try: self.red_pitaya.set_...(...)  except socket.error: _warn_and_reconnect(err)
TrySend ==
    /\ pc = "try"
    /\ Len(attempts) < MaxAttempts
    /\ \E out \in TxOutcomes(socket) :
        /\ attempts' = Append(attempts, [cmd |-> tx_txt(FrameCommand), ok |-> out = "ok"])
        /\ CASE out = "ok" ->
                    /\ End("ok")
                    /\ UNCHANGED reconnects
             [] out = "socket.error" ->
                    /\ pc' = "reconnect"
                    /\ reconnects' = reconnects + 1
                    /\ UNCHANGED result
             [] out = "AttributeError" ->
                    /\ End("AttributeError")
                    /\ UNCHANGED reconnects
    /\ UNCHANGED <<session, rx, frame, upd, prompts, cancelled, stub, wire>>

\* ReconnectReturns with the retry left out of the except blocks: the setter ends
\* once the reconnect callback has returned
ReconnectReturns_NoRetry ==
    /\ End("ok")
    /\ UNCHANGED frame

\* MainWindow.reconnect returns to its caller: the except block of a setter, which
\* calls the setter again, or the event loop (Reconnect button)
ReconnectReturns ==
    IF frame.kind = "setter"
    THEN /\ pc' = "try"
         /\ frame' = [frame EXCEPT !.m = RetryMethod(frame.m)]
         /\ UNCHANGED result
    ELSE /\ End("ok")
         /\ UNCHANGED frame

\* ReconnectAuto without the try block around connect(): the socket error of a
\* failed attempt leaves the callback and the handler that called it
ReconnectAuto_Raises ==
    /\ pc = "reconnect"
    /\ \E ok \in BOOLEAN, collected \in BOOLEAN :
        /\ connect(ok, collected)
        /\ IF ok
           THEN ReconnectReturns
           ELSE /\ End("socket.error")
                /\ UNCHANGED frame
    /\ UNCHANGED <<host, rx, upd, attempts, reconnects, prompts, cancelled, stub, wire>>

\* MainWindow.reconnect, up to the prompt: connect() to the configured host
ReconnectAuto ==
    /\ pc = "reconnect"
    /\ \E ok \in BOOLEAN, collected \in BOOLEAN :
        /\ connect(ok, collected)
        /\ IF ok
           THEN ReconnectReturns
           ELSE /\ pc' = "prompt"
                /\ UNCHANGED <<frame, result>>
    /\ UNCHANGED <<host, rx, upd, attempts, reconnects, prompts, cancelled, stub, wire>>

\* MainWindow.reconnect, the prompt and its loop: the user cancels, or gives an
\* address that becomes the host and is connected to
ReconnectPrompt ==
    /\ pc = "prompt"
    /\ \/ /\ cancelled' = TRUE
          /\ ReconnectReturns
          /\ UNCHANGED <<session, prompts>>
       \/ /\ prompts < MaxPrompts
          /\ prompts' = prompts + 1
          /\ \E rp_addr \in Hosts, ok \in BOOLEAN, collected \in BOOLEAN :
                /\ host' = rp_addr
                /\ connect(ok, collected)
                /\ IF ok
                   THEN ReconnectReturns
                   ELSE UNCHANGED <<pc, frame, result>>
          /\ UNCHANGED cancelled
    /\ UNCHANGED <<rx, upd, attempts, reconnects, stub, wire>>

\* the Reconnect button: clicked is connected to MainWindow.reconnect
ClickReconnect ==
    /\ pc = "idle"
    /\ Begin([NoFrame EXCEPT !.kind = "reconnect"])
    /\ upd' = 0
    /\ result' = NoResult
    /\ pc' = "reconnect"
    /\ UNCHANGED <<session, stub, wire>>

\* ------------------------------------- gui / widgets: update_parameters
\* update_parameters of the widget groups, by getter: the widget the
\* QSignalBlocker made before the call blocks, the widget the value the getter
\* returned is written into, and the setter that widget's signal is connected to
UpdateWidgets ==
    [get_setpoint |-> [blocked |-> "PID.spin_box_sp", written |-> "PID.spin_box_sp",
                       slot |-> "setpoint"],
     get_kp |-> [blocked |-> "PID.spin_box_kp", written |-> "PID.spin_box_kp",
                 slot |-> "kp_gain"],
     get_ki |-> [blocked |-> "PID.spin_box_ki", written |-> "PID.spin_box_ki",
                 slot |-> "ki_gain"],
     get_kd |-> [blocked |-> "PID.spin_box_kd", written |-> "PID.spin_box_kd",
                 slot |-> "kd_gain"],
     get_int_reset_state |->
        [blocked |-> "PID.spin_box_int_reset", written |-> "PID.spin_box_int_reset",
         slot |-> "reset_state"],
     get_int_hold_state |->
        [blocked |-> "PID.check_box_int_hold", written |-> "PID.check_box_int_hold",
         slot |-> "hold_state"],
     get_int_auto_state |->
        [blocked |-> "PID.check_box_int_auto_reset",
         written |-> "PID.check_box_int_auto_reset", slot |-> "auto_state"],
     get_inv_state |->
        [blocked |-> "PID.check_box_inverted", written |-> "PID.check_box_inverted",
         slot |-> "inv_state"],
     get_relock_state |->
        [blocked |-> "Relock.check_box_enabled", written |-> "Relock.check_box_enabled",
         slot |-> "relock_state"],
     get_relock_minimum |->
        [blocked |-> "Relock.spin_box_minimum", written |-> "Relock.spin_box_minimum",
         slot |-> "relock_min"],
     get_relock_maximum |->
        [blocked |-> "Relock.spin_box_maximum", written |-> "Relock.spin_box_maximum",
         slot |-> "relock_max"],
     get_relock_stepsize |->
        [blocked |-> "Relock.spin_box_slew_rate",
         written |-> "Relock.spin_box_slew_rate", slot |-> "relock_stepsize"],
     get_output_minimum |->
        [blocked |-> "Output.spin_box_minimum", written |-> "Output.spin_box_minimum",
         slot |-> "output_min"],
     get_output_maximum |->
        [blocked |-> "Output.spin_box_maximum", written |-> "Output.spin_box_maximum",
         slot |-> "output_max"],
     get_output_state |->
        [blocked |-> "Output.check_box_output_state",
         written |-> "Output.check_box_output_state", slot |-> "output_state"],
     get_generator_frequency |->
        [blocked |-> "Output.spin_box_frequency",
         written |-> "Output.spin_box_frequency", slot |-> "generator_frequency"],
     get_generator_waveform |->
        [blocked |-> "Output.combo_box_waveform",
         written |-> "Output.combo_box_waveform", slot |-> "generator_waveform"],
     get_generator_amplitude |->
        [blocked |-> "Output.spin_box_amp", written |-> "Output.spin_box_amp",
         slot |-> "generator_amplitude"],
     get_generator_offset |->
        [blocked |-> "Output.spin_box_offset", written |-> "Output.spin_box_offset",
         slot |-> "generator_offset"]]

\* SignalsBlocked of an update_parameters that makes one QSignalBlocker, for the
\* first widget of the group
SignalsBlocked_FirstOnly(g) ==
    g \in {"get_setpoint", "get_relock_state", "get_output_minimum"}

\* the signals of the widget a getter's value is written into are blocked
\* while it is written
SignalsBlocked(g) == UpdateWidgets[g].blocked = UpdateWidgets[g].written

\* the argument a widget's signal passes to its setter when val is written into
\* the widget: stateChanged passes the check state, the others the value
SignalArg(val) == IF val.t = "bool" THEN PyInt(2 * val.n) ELSE val

\* setValue / setChecked / setCurrentText of the value a getter returned: the
\* send attempts it leads to.  None when the widget's signals are blocked or the
\* widget held the value already; else the widget's signal calls its setter,
\* which sends its command.
WidgetWrite(call, val) ==
    IF SignalsBlocked(call.g)
    THEN {<<>>}
    ELSE {<<>>,
          <<[cmd |-> tx_txt(SetCommand(Handler(UpdateWidgets[call.g].slot).calls,
                                       call.num_in, call.num_out, SignalArg(val))),
             ok |-> TRUE]>>}

\* the (num_in, num_out) of the PID and relock groups, in the order
\* _create_lockbox_group creates them
GroupKeys == <<<<1, 1>>, <<1, 2>>, <<2, 1>>, <<2, 2>>>>

GroupCalls(getters) ==
    [k \in 1..(Len(GroupKeys) * Len(getters)) |->
        [g |-> getters[((k - 1) % Len(getters)) + 1],
         num_in |-> GroupKeys[((k - 1) \div Len(getters)) + 1][1],
         num_out |-> GroupKeys[((k - 1) \div Len(getters)) + 1][2]]]

OutputCalls ==
    [k \in 1..(NumChannels * Len(OutputGetters)) |->
        [g |-> OutputGetters[((k - 1) % Len(OutputGetters)) + 1],
         num_in |-> 0,
         num_out |-> ((k - 1) \div Len(OutputGetters)) + 1]]

\* MainWindow.update_parameters: the getter calls it makes, in order
UpdateCalls == GroupCalls(PIDGetters) \o GroupCalls(RelockGetters) \o OutputCalls

\* MainWindow.__init__: the getter calls the constructors of its widget groups
\* make, in order: for every input and output a PIDGroup, then a RelockGroup; then
\* the OutputGroups
InitCalls ==
    [k \in 1..(Len(GroupKeys) * (Len(PIDGetters) + Len(RelockGetters))) |->
        LET key == GroupKeys[((k - 1) \div (Len(PIDGetters) + Len(RelockGetters))) + 1]
            j == ((k - 1) % (Len(PIDGetters) + Len(RelockGetters))) + 1
        IN  [g |-> (PIDGetters \o RelockGetters)[j], num_in |-> key[1],
             num_out |-> key[2]]]
    \o OutputCalls

\* the getter calls of the frame in progress
FrameCalls == IF frame.kind = "init" THEN InitCalls ELSE UpdateCalls

\* the 'Get parameters from device' button: MainWindow.update_parameters
ClickUpdate ==
    /\ pc = "idle"
    /\ Begin([NoFrame EXCEPT !.kind = "update"])
    /\ upd' = 1
    /\ result' = NoResult
    /\ pc' = "query"
    /\ UNCHANGED <<session, stub, wire>>

\* the save button (RedPitaya.save_lockbox_config) and the load button
\* (MainWindow.load_parameters)
ClickSaveLoad ==
    /\ pc = "idle"
    /\ \E k \in {"save", "load"} : Begin([NoFrame EXCEPT !.kind = k])
    /\ upd' = 0
    /\ result' = NoResult
    /\ pc' = "command"
    /\ UNCHANGED <<session, stub, wire>>

\* save_lockbox_config() / load_lockbox_config(): tx_txt of the command, with no
\* exception handler around it; load_parameters goes on with update_parameters,
\* which from there is the handler in progress
SendCommand ==
    /\ pc = "command"
    /\ \E out \in TxOutcomes(socket) :
        /\ attempts' = Append(attempts,
                [cmd |-> tx_txt(IF frame.kind = "save" THEN save_lockbox_config
                                ELSE load_lockbox_config),
                 ok |-> out = "ok"])
        /\ IF out = "ok" /\ frame.kind = "load"
           THEN /\ pc' = "query"
                /\ upd' = 1
                /\ frame' = [frame EXCEPT !.kind = "update"]
                /\ UNCHANGED result
           ELSE /\ End(out)
                /\ UNCHANGED <<upd, frame>>
    /\ UNCHANGED <<session, rx, reconnects, prompts, cancelled, stub, wire>>

\* SendQuery of a client that keeps the values: the getter returns what the
\* client holds and sends nothing
SendQuery_Cached ==
    /\ pc = "query"
    /\ attempts' = <<>>
    /\ got' = [g |-> FrameCalls[upd].g, num_in |-> FrameCalls[upd].num_in,
               num_out |-> FrameCalls[upd].num_out, exc |-> "none", val |-> got.val]
    /\ IF upd < Len(FrameCalls)
       THEN /\ upd' = upd + 1
            /\ UNCHANGED <<pc, result>>
       ELSE /\ End("ok")
            /\ UNCHANGED upd
    /\ UNCHANGED <<session, frame, reconnects, prompts, cancelled, msg, chunk, reads,
                   resp, ret, stub, wire>>

\* a getter of update_parameters, txrx_txt up to rx_txt: tx_txt of the query, with
\* no exception handler around it.  A device that is still connected answers
\* with a payload and the delimiter.
SendQuery ==
    /\ pc = "query"
    /\ \E out \in TxOutcomes(socket) :
        /\ attempts' = <<[cmd |-> tx_txt(GetCommand(FrameCalls[upd].g,
                                                    FrameCalls[upd].num_in,
                                                    FrameCalls[upd].num_out)),
                          ok |-> out = "ok"]>>
        /\ IF out = "ok"
           THEN /\ pc' = "rx"
                /\ \E p \in Payloads :
                    /\ resp' = p
                    /\ rxq' = IF socket = "connected" THEN rxq \o p \o delimiterChars
                              ELSE rxq
                /\ UNCHANGED result
           ELSE /\ End(out)
                /\ UNCHANGED <<rxq, resp>>
    /\ msg' = <<>>
    /\ chunk' = <<>>
    /\ reads' = 0
    /\ ret' = <<>>
    /\ got' = NoGot
    /\ UNCHANGED <<host, socket, nopen, frame, upd, reconnects, prompts, cancelled, stub,
                   wire>>

\* rx_txt: one pass of its loop.  On return the getter decodes the text and ends,
\* with the exception of the decoding or with the value, which is written into
\* the widget; update_parameters then goes on with the next getter.
Recv ==
    /\ pc = "rx"
    /\ reads < MaxReads
    /\ \E r \in RecvOutcomes(socket, rxq, RecvSize(ChunkSize)) :
        IF r.exc # "none"
        THEN /\ End(r.exc)
             /\ UNCHANGED <<rxq, msg, chunk, reads, ret, upd, got, attempts>>
        ELSE /\ chunk' = r.data
             /\ msg' = msg \o r.data
             /\ reads' = reads + 1
             /\ rxq' = SubSeq(rxq, Len(r.data) + 1, Len(rxq))
             /\ IF RxDone(r.data)
                THEN /\ ret' = DropLast2(msg')
                     /\ got' = [g |-> FrameCalls[upd].g,
                                num_in |-> FrameCalls[upd].num_in,
                                num_out |-> FrameCalls[upd].num_out,
                                exc |-> GetValue(FrameCalls[upd].g, ret').exc,
                                val |-> GetValue(FrameCalls[upd].g, ret').val]
                     /\ IF got'.exc # "none"
                        THEN /\ End(got'.exc)
                             /\ UNCHANGED <<upd, attempts>>
                        ELSE /\ \E sent \in WidgetWrite(FrameCalls[upd], got'.val) :
                                    attempts' = attempts \o sent
                             /\ IF upd < Len(FrameCalls)
                                THEN /\ upd' = upd + 1
                                     /\ pc' = "query"
                                     /\ UNCHANGED result
                                ELSE /\ End("ok")
                                     /\ UNCHANGED upd
                ELSE UNCHANGED <<ret, got, upd, pc, result, attempts>>
    /\ UNCHANGED <<host, socket, nopen, frame, reconnects, prompts, cancelled, resp, stub,
                   wire>>

\* ------------------------------------------------------ client API: close
\* close() called between two GUI calls
Close ==
    /\ pc = "idle"
    /\ Begin([NoFrame EXCEPT !.kind = "close", !.m = socket])
    /\ upd' = 0
    /\ socket' = close(socket, nopen).socket
    /\ nopen' = close(socket, nopen).nopen
    /\ rxq' = <<>>
    /\ pc' = "idle"
    /\ result' = [kind |-> IF close(socket, nopen).exc = "none" THEN "ok"
                           ELSE close(socket, nopen).exc]
    /\ UNCHANGED <<host, stub, wire>>

\* ------------------------------------------------------------ environment
\* the peer resets the connection; what was not read is lost
LinkReset ==
    /\ socket = "connected"
    /\ socket' = "reset"
    /\ rxq' = <<>>
    /\ UNCHANGED <<host, nopen, gui, rx, stub, wire>>

\* the peer closes the connection; bytes it had not yet sent never arrive
PeerClose ==
    /\ socket = "connected"
    /\ socket' = "eof"
    /\ \E k \in 0..Len(rxq) : rxq' = SubSeq(rxq, 1, k)
    /\ UNCHANGED <<host, nopen, gui, rx, stub, wire>>

Next ==
    \/ Startup
    \/ Show
    \/ Quit
    \/ CallSetter
    \/ TrySend
    \/ ReconnectAuto
    \/ ReconnectPrompt
    \/ ClickReconnect
    \/ ClickUpdate
    \/ ClickSaveLoad
    \/ SendCommand
    \/ SendQuery
    \/ Recv
    \/ Close
    \/ LinkReset
    \/ PeerClose

Spec == Init /\ [][Next]_vars

\* ------------------------------------------------- the catalog against a stub
\* A client used directly (no GUI) on a connection that never fails, with the
\* default chunksize, so that each response arrives in one read.  The peer is a
\* stub that answers a query with the value text of the last set command, or a
\* device that answers a query with a text of its own.

\* the values a caller passes to a set_* method
StubFloatValues == FloatValues \cup {10000}

ApiValues(method) ==
    IF method \in BoolSetters THEN {PyBool(b) : b \in BOOLEAN}
    ELSE IF method = "set_generator_waveform"
    THEN {PyText(w) : w \in Waveforms \cup {"NOISE"}}
    ELSE IF method = "set_kd"
    THEN {PyInt(n) : n \in IntValues} \cup {PyFloat(f) : f \in StubFloatValues}
    ELSE {PyFloat(f) : f \in StubFloatValues}

\* the channel numbers a caller passes to a set_* method: 1, 2 and the numbers
\* next to them, which no channel has
ApiChannels == 0..(NumChannels + 1)

\* the texts a device answers with
Answers == {<<"ON">>, <<"OFF">>, <<"0">>, <<"1">>, <<"2", ".", "5">>, <<"x">>, <<>>}

StubInit ==
    /\ host = "stub"
    /\ socket = "connected"
    /\ nopen = 1
    /\ rxq = <<>>
    /\ pc = "harness"
    /\ frame = NoFrame
    /\ upd = 0
    /\ attempts = <<>>
    /\ reconnects = 0
    /\ prompts = 0
    /\ cancelled = FALSE
    /\ result = NoResult
    /\ msg = <<>>
    /\ chunk = <<>>
    /\ reads = 0
    /\ resp = <<>>
    /\ ret = <<>>
    /\ got = NoGot
    /\ stub = NoStub
    /\ wire = ""

\* red_pitaya.set_...(num_in, num_out, value): tx_txt of the command; the stub
\* keeps the value text
StubSet ==
    /\ pc = "harness"
    /\ \E pair \in CatalogPairs, i \in ApiChannels, o \in ApiChannels :
        \E v \in ApiValues(pair[1]) :
            LET num_in == IF pair[1] \in OutputMethods THEN 0 ELSE i
            IN  /\ frame' = [kind |-> "set", m |-> pair[1], orig |-> "",
                             num_in |-> num_in, num_out |-> o, v |-> v]
                /\ attempts' = <<[cmd |-> tx_txt(SetCommand(pair[1], num_in, o, v)),
                                  ok |-> TRUE]>>
                /\ stub' = [set |-> pair[1], get |-> pair[2], num_in |-> num_in,
                            num_out |-> o, text |-> FmtChars(SetValue(pair[1], v)),
                            v |-> v]
    /\ ClearRx
    /\ result' = [kind |-> "ok"]
    /\ UNCHANGED <<session, pc, upd, reconnects, prompts, cancelled, wire>>

\* a getter called with the peer answering text: txrx_txt sends the query, rx_txt
\* returns the text, the getter decodes it
Get(method, num_in, num_out, text) ==
    /\ frame' = [kind |-> "get", m |-> method, orig |-> "", num_in |-> num_in,
                 num_out |-> num_out, v |-> PyNone]
    /\ attempts' = <<[cmd |-> tx_txt(GetCommand(method, num_in, num_out)), ok |-> TRUE]>>
    /\ resp' = text
    /\ msg' = text \o delimiterChars
    /\ chunk' = text \o delimiterChars
    /\ reads' = 1
    /\ ret' = DropLast2(msg')
    /\ got' = [g |-> method, num_in |-> num_in, num_out |-> num_out,
               exc |-> GetValue(method, ret').exc, val |-> GetValue(method, ret').val]
    /\ result' = [kind |-> IF got'.exc = "none" THEN "ok" ELSE got'.exc]

\* red_pitaya.get_...(num_in, num_out) of the parameter that was set last: the
\* stub answers with the value text it keeps
StubGet ==
    /\ pc = "harness"
    /\ stub.set # ""
    /\ Get(stub.get, stub.num_in, stub.num_out, stub.text)
    /\ UNCHANGED <<session, pc, upd, reconnects, prompts, cancelled, stub, wire>>

\* red_pitaya.get_...(num_in, num_out) with a device that answers with a text of
\* its own
StubAnswer ==
    /\ pc = "harness"
    /\ \E pair \in CatalogPairs, i \in Channels, o \in Channels, text \in Answers :
        Get(pair[2], IF pair[1] \in OutputMethods THEN 0 ELSE i, o, text)
    /\ stub' = NoStub
    /\ UNCHANGED <<session, pc, upd, reconnects, prompts, cancelled, wire>>

StubNext ==
    \/ StubSet
    \/ StubGet
    \/ StubAnswer

StubSpec == StubInit /\ [][StubNext]_vars

\* ------------------------------------------------- a client with a timeout
\* A client used directly (no GUI), constructed with a timeout, RedPitaya(host,
\* timeout): its socket is in timeout mode, where send returns once it has handed
\* over part of the bytes, and recv raises socket.timeout when nothing has
\* arrived in time.  The device reads what the socket accepted line by line and
\* answers each query it knows with the value it holds; a set command for
\* another parameter, or a line it does not know, it answers with nothing.

\* a send leaves at most this many bytes unaccepted
MaxCut == 2

\* a call starts only while the device has at most this many bytes left to read
MaxWire == 30

\* rx_txt(self, chunksize=4096)
DefaultChunkSize == 4096

\* the values the device holds, as it writes them, by getter
DeviceTexts == [get_kp |-> <<"1">>, get_ki |-> <<"2">>]

TimedGetters == DOMAIN DeviceTexts

\* the setters called: of parameters other than those of TimedGetters
TimedSetters == {"set_setpoint", "set_output_state"}

\* the outcomes of self._socket.send(data) for n bytes on a connection that is
\* up: the number of bytes the socket accepted
SendAccepts(n) == {k \in 1..n : k >= n - MaxCut}

\* the outcomes of self._socket.recv(n) when the socket has a timeout
TimedRecvOutcomes(sock, q, n) ==
    IF sock = "connected" /\ q = <<>>
    THEN {[exc |-> "socket.timeout", data |-> <<>>]}
    ELSE RecvOutcomes(sock, q, n)

\* the bytes hold a complete line
HasLine(w) == \E k \in 1..(Len(w) - 1) : SubSeq(w, k, k + 1) = delimiter

\* the first line of the bytes, without its delimiter
FirstLine(w) ==
    LET k == CHOOSE j \in 1..(Len(w) - 1) :
                /\ SubSeq(w, j, j + 1) = delimiter
                /\ \A h \in 1..(j - 1) : SubSeq(w, h, h + 1) # delimiter
    IN  SubSeq(w, 1, k - 1)

\* the getters whose query the line is
QueryOf(line) ==
    {g \in TimedGetters : \E i \in Channels, o \in Channels : line = GetCommand(g, i, o)}

TimedInit ==
    /\ host = "stub"
    /\ socket = "connected"
    /\ nopen = 1
    /\ rxq = <<>>
    /\ pc = "harness"
    /\ frame = NoFrame
    /\ upd = 0
    /\ attempts = <<>>
    /\ reconnects = 0
    /\ prompts = 0
    /\ cancelled = FALSE
    /\ result = NoResult
    /\ msg = <<>>
    /\ chunk = <<>>
    /\ reads = 0
    /\ resp = <<>>
    /\ ret = <<>>
    /\ got = NoGot
    /\ stub = NoStub
    /\ wire = ""

\* tx_txt(msg) on the socket with a timeout: one call of send, whose return
\* value, the number of bytes accepted, is dropped
TimedSend(text) ==
    \E n \in SendAccepts(Len(tx_txt(text))) :
        /\ attempts' = <<[cmd |-> tx_txt(text), ok |-> TRUE, sent |-> n]>>
        /\ wire' = wire \o SubSeq(tx_txt(text), 1, n)

\* red_pitaya.set_...(num_in, num_out, value)
TimedSet ==
    /\ pc = "harness"
    /\ Len(wire) <= MaxWire
    /\ \E m \in TimedSetters, i \in Channels, o \in Channels :
        \E v \in ApiValues(m) :
            LET num_in == IF m \in OutputMethods THEN 0 ELSE i
            IN  /\ frame' = [kind |-> "set", m |-> m, orig |-> "", num_in |-> num_in,
                             num_out |-> o, v |-> v]
                /\ TimedSend(SetCommand(m, num_in, o, v))
    /\ ClearRx
    /\ result' = [kind |-> "ok"]
    /\ UNCHANGED <<session, pc, upd, reconnects, prompts, cancelled, stub>>

\* red_pitaya.get_...(num_in, num_out), txrx_txt up to rx_txt
TimedQuery ==
    /\ pc = "harness"
    /\ Len(wire) <= MaxWire
    /\ \E g \in TimedGetters, i \in Channels, o \in Channels :
        /\ frame' = [kind |-> "get", m |-> g, orig |-> "", num_in |-> i, num_out |-> o,
                     v |-> PyNone]
        /\ TimedSend(GetCommand(g, i, o))
    /\ ClearRx
    /\ pc' = "rx"
    /\ result' = NoResult
    /\ UNCHANGED <<session, upd, reconnects, prompts, cancelled, stub>>

\* rx_txt: one pass of its loop; on return the getter decodes the text and ends
TimedRecv ==
    /\ pc = "rx"
    /\ reads < MaxReads
    /\ \E r \in TimedRecvOutcomes(socket, rxq, RecvSize(DefaultChunkSize)) :
        IF r.exc # "none"
        THEN /\ pc' = "harness"
             /\ result' = [kind |-> r.exc]
             /\ UNCHANGED <<rxq, msg, chunk, reads, ret, got>>
        ELSE /\ chunk' = r.data
             /\ msg' = msg \o r.data
             /\ reads' = reads + 1
             /\ rxq' = SubSeq(rxq, Len(r.data) + 1, Len(rxq))
             /\ IF RxDone(r.data)
                THEN /\ ret' = DropLast2(msg')
                     /\ got' = [g |-> frame.m, num_in |-> frame.num_in,
                                num_out |-> frame.num_out,
                                exc |-> GetValue(frame.m, ret').exc,
                                val |-> GetValue(frame.m, ret').val]
                     /\ pc' = "harness"
                     /\ result' = [kind |-> IF got'.exc = "none" THEN "ok" ELSE got'.exc]
                ELSE UNCHANGED <<ret, got, pc, result>>
    /\ UNCHANGED <<host, socket, nopen, frame, upd, attempts, reconnects, prompts,
                   cancelled, resp, stub, wire>>

\* the device reads a line and answers it
DeviceReads ==
    /\ HasLine(wire)
    /\ wire' = SubSeq(wire, Len(FirstLine(wire)) + Len(delimiter) + 1, Len(wire))
    /\ rxq' = IF QueryOf(FirstLine(wire)) # {}
              THEN rxq \o DeviceTexts[CHOOSE g \in QueryOf(FirstLine(wire)) : TRUE]
                       \o delimiterChars
              ELSE rxq
    /\ UNCHANGED <<host, socket, nopen, gui, rx, stub>>

TimedNext ==
    \/ TimedSet
    \/ TimedQuery
    \/ TimedRecv
    \/ DeviceReads

TimeoutSpec == TimedInit /\ [][TimedNext]_vars


\* ------------------------------------------------------------------ claims
\* rx_txt has returned to the getter that called it
RxReturned == pc # "rx" /\ reads > 0 /\ result.kind \in {"none", "ok"}

\* C1: framing.  For every payload without the delimiter and every way of
\* delivering payload + CR LF in non-empty reads, rx_txt returns, and returns the
\* payload: once every byte of the response has been read rx_txt is no longer in
\* its loop, and what it returned is the payload.
C1_Framing ==
    /\ pc = "rx" => msg # resp \o delimiterChars
    /\ RxReturned => ret = resp

\* C2: when a read returns zero bytes (the peer closed) and the accumulated text
\* does not end with the delimiter, rx_txt ends with a ConnectionError instead of
\* reading on.
C2_PeerCloseRaises ==
    (frame.kind \in {"update", "load"} /\ reads > 0 /\ chunk = <<>>)
        => (pc = "idle" /\ result.kind = "socket.error")

\* C3: in every setter of PIDGroup, RelockGroup and OutputGroup, the command sent
\* after a failed send and a recovery is the command that failed.
C3_RetrySameCommand ==
    frame.kind = "setter" =>
        \A k \in 2..Len(attempts) :
            ~attempts[k - 1].ok => attempts[k].cmd = attempts[k - 1].cmd

\* C4: reconnect-retry.  When the first send of a setter call raises a transport
\* error and the send after the reconnect succeeds, the call has completed
\* successfully with exactly two send attempts and exactly one invocation of the
\* reconnect callback; and a setter call whose first send failed completes
\* successfully only by such a retry.
C4_ReconnectRetry ==
    frame.kind = "setter" =>
        /\ (Len(attempts) >= 2 /\ ~attempts[1].ok /\ attempts[2].ok)
                => (pc = "idle" /\ result.kind = "ok" /\ Len(attempts) = 2
                    /\ reconnects = 1)
        /\ (pc = "idle" /\ result.kind = "ok" /\ ~attempts[1].ok)
                => (Len(attempts) >= 2 /\ reconnects >= 1)

C4_Witness ==
    /\ frame.kind = "setter"
    /\ pc = "idle"
    /\ result.kind = "ok"
    /\ Len(attempts) = 2
    /\ ~attempts[1].ok
    /\ attempts[2].ok
    /\ reconnects = 1

\* C5: failure escalation.  When the recovery callback ends without a connection
\* (the automatic reconnect failed and the user cancelled the prompt), the setter
\* call ends and its ConnectionError reaches the caller; nothing more is sent.
C5_FailureEscalation ==
    (frame.kind = "setter" /\ cancelled)
        => (pc = "idle" /\ result.kind = "socket.error")

\* C6: the transport failure of every catalog operation (getters, save and load
\* too) is caught: before the error reaches the caller the recovery callback was
\* invoked.
C6_AllOperationsRecover ==
    (frame.kind \in {"update", "save", "load"} /\ pc = "idle"
     /\ result.kind = "socket.error")
        => reconnects >= 1

\* C7: session invariant.  The session holds no socket handle, or one open socket
\* whose connection was established (whatever the peer did to it since); after a
\* failed connect attempt it holds none.
C7_SessionInvariant == socket \in {"None", "connected", "reset", "eof"}

\* C8: reconnect fully replaces the handle: at most one socket created by the
\* session is open at any time.
C8_ReconnectReplaces == nopen <= 1

\* C9: close() never fails and is idempotent.  In whatever state the session was,
\* close() has returned normally and left no handle, and another close() would
\* return normally and change nothing.
C9_CloseIdempotent ==
    frame.kind = "close" =>
        /\ result.kind = "ok"
        /\ socket = "None"
        /\ close(socket, nopen) = [exc |-> "none", socket |-> socket, nopen |-> nopen]

\* close() was called on a session that was already closed, and on one that held a
\* socket whose connect had failed
C9_Witness ==
    /\ frame.kind = "close"
    /\ frame.m = "None"
    /\ result.kind = "ok"
    /\ socket = "None"

\* C10: after close() every setter or getter call fails with the error kind the
\* retry layer catches (socket.error), and with no other kind.
C10_ClosedSendRaisesConnectionError ==
    (frame.kind \in {"setter", "update", "save", "load"} /\ pc = "idle"
     /\ socket = "None")
        => result.kind = "socket.error"

\* a getter has returned a value to update_parameters
GetterReturned == got.g # "" /\ got.exc = "none"

C12_CommandText ==
    frame.kind = "set" =>
        /\ attempts = <<[cmd |-> SetHead(frame.m, frame.num_in, frame.num_out) \o " "
                                 \o Join(stub.text) \o "\r\n",
                         ok |-> TRUE]>>
        /\ (frame.m = "set_generator_frequency" /\ frame.num_out = 1
            /\ frame.v = PyFloat(10000))
                => attempts[1].cmd = "SOUR1:FREQ:FIX 1000.0\r\n"
        /\ (frame.m = "set_kp" /\ frame.num_in = 1 /\ frame.num_out = 2
            /\ frame.v = PyFloat(25))
                => attempts[1].cmd = "PID:IN1:OUT2:KP 2.5\r\n"

\* set_generator_frequency(1, 1000.0) was called
C12_Witness ==
    /\ frame.kind = "set"
    /\ frame.m = "set_generator_frequency"
    /\ frame.num_out = 1
    /\ frame.v = PyFloat(10000)
    /\ Len(attempts) = 1

\* C13: the boolean encodings are per parameter.  get_int_reset_state returns
\* True for the response 'ON' and False for 'OFF'; set_output_state sends the
\* value 1 for True and 0 for False; get_output_state returns True for the
\* response '1' and False for '0'.
C13_BooleanEncodings ==
    /\ (frame.kind = "get" /\ frame.m = "get_int_reset_state"
        /\ resp \in {<<"ON">>, <<"OFF">>})
            => (got.exc = "none" /\ got.val = PyBool(resp = <<"ON">>))
    /\ (frame.kind = "get" /\ frame.m = "get_output_state"
        /\ resp \in {<<"1">>, <<"0">>})
            => (got.exc = "none" /\ got.val = PyBool(resp = <<"1">>))
    /\ (frame.kind = "set" /\ frame.m = "set_output_state" /\ frame.v.t = "bool")
            => /\ stub.text = IF frame.v = PyBool(TRUE) THEN <<"1">> ELSE <<"0">>
               /\ attempts[1].cmd =
                    "OUTPUT" \o IntStr(frame.num_out) \o ":STATE "
                    \o (IF frame.v = PyBool(TRUE) THEN "1" ELSE "0") \o "\r\n"

\* get_int_reset_state returned True for 'ON'
C13_Witness ==
    /\ frame.kind = "get"
    /\ frame.m = "get_int_reset_state"
    /\ resp = <<"ON">>
    /\ got.val = PyBool(TRUE)

\* a == b for Python values: numbers (bool, int, float) compare by value
PyEq(a, b) ==
    LET Tenths(x) == IF x.t = "float" THEN x.n ELSE 10 * x.n
        Number(x) == x.t \in {"bool", "int", "float"}
    IN  IF Number(a) /\ Number(b) THEN Tenths(a) = Tenths(b) ELSE a = b

\* a getter was answered by the stub with the value text of the last set command
\* for its parameter
StubAnswered == frame.kind = "get" /\ stub.set # "" /\ stub.get = frame.m

\* C14 as stated: round trip.  For every setter/getter pair that shares a
\* parameter (numeric, waveform and every boolean parameter), against a stub that
\* answers a query with the value text of the last set command, the value the
\* getter decodes equals the value given to the setter.
C14_RoundTrip == StubAnswered => (got.exc = "none" /\ PyEq(got.val, stub.v))

\* C14, amended: the round trip holds for the numeric parameters, the waveform
\* and the output state.  For the parameters whose getter compares the response
\* with 'ON' (integrator reset, hold and auto-reset, inversion, relock) the setter
\* sends 0 or 1, so against the stub the getter returns False whatever was set.
C14_RoundTripExceptOnOff ==
    StubAnswered =>
        /\ got.exc = "none"
        /\ IF frame.m \in OnOffGetters
           THEN got.val = PyBool(FALSE)
           ELSE PyEq(got.val, stub.v)

\* set_kp(1, 1, 2.5) then get_kp(1, 1) returned 2.5
C14_Witness ==
    /\ StubAnswered
    /\ stub.set = "set_kp"
    /\ stub.v = PyFloat(25)
    /\ got.val = PyFloat(25)

\* C15: framing boundary.  When the payload is exactly ChunkSize characters long,
\* the connection is up and the first read returned as much as was there, up to
\* the size asked for, rx_txt has returned after that one read, and returned the
\* payload: nothing lost, nothing duplicated, nothing left unread.
C15_ChunkBoundary ==
    (reads = 1 /\ Len(resp) = ChunkSize /\ socket = "connected"
     /\ (rxq = <<>> \/ Len(chunk) = RecvSize(ChunkSize)))
        => (pc # "rx" /\ ret = resp /\ msg = resp \o delimiterChars /\ rxq = <<>>)

\* a payload of ChunkSize characters and the delimiter came in one read
C15_Witness ==
    /\ reads = 1
    /\ Len(resp) = ChunkSize
    /\ chunk = resp \o delimiterChars
    /\ pc = "query"
    /\ ret = resp

ValidEncoding(g, text) ==
    CASE g = "get_output_state" -> text \in {<<"0">>, <<"1">>}
      [] g \in OnOffGetters -> Join(text) \in {"ON", "OFF"}
      [] g = "get_generator_waveform" -> TRUE
      [] OTHER -> /\ \A k \in 1..Len(text) : text[k] \in Digits \cup {"-", "+", "."}
                  /\ \E k \in 1..Len(text) : text[k] \in Digits

\* the response holds no digit
NoDigit(text) == \A k \in 1..Len(text) : text[k] \notin Digits

\* the getter's exception left the handler at once: no recovery, nothing resent
Propagated ==
    /\ pc \in {"idle", "crashed"}
    /\ result.kind = got.exc
    /\ reconnects = 0
    /\ prompts = 0
    /\ Len(attempts) = 1

C18_Lifecycle ==
    /\ [](pc = "startup" => (host = NoHost /\ socket = "None" /\ nopen = 0))
    /\ [][/\ (pc = "startup" /\ pc' = "query")
                => (socket' = "connected" /\ host' \in Hosts /\ nopen' = 1)
          /\ (pc = "startup" /\ pc' = "startup" /\ prompts' # prompts)
                => result'.kind = "socket.error"
          /\ (pc \in {"idle", "crashed"} /\ frame'.kind \in {"close", "quit"})
                => /\ socket' = "None"
                   /\ nopen' = IF socket = "None" THEN nopen ELSE nopen - 1]_vars

\* the constructor has just returned and the widgets are about to be built
C18_Witness ==
    /\ frame.kind = "init"
    /\ pc = "query"
    /\ upd = 1
    /\ attempts = <<>>
    /\ socket = "connected"
    /\ host \in Hosts

\* C19: the end-of-message test is applied to the last two characters of the
\* accumulated text, not of the latest chunk: whenever what was accumulated so
\* far ends with CR LF, rx_txt has returned after that read, also when the read
\* returned a single character.
C19_TestOnAccumulated == pc = "rx" => Last2(msg) # delimiterChars

\* C20: session state machine.  Once a send or a receive has observed a transport
\* error (a setter is about to call the recovery callback, or a call has ended
\* with socket.error), the session is Disconnected: it holds no socket handle, so
\* that the failed handle cannot be used again.
C20_ErrorDisconnects ==
    (\/ frame.kind = "setter" /\ pc = "reconnect"
     \/ pc \in {"idle", "crashed"} /\ result.kind = "socket.error")
        => socket = "None"


\* C21: within one setter call the retries are bounded by the user: as long as
\* the user has not cancelled the prompt, the number of send attempts is at most
\* one plus the number of addresses the user gave to the prompt of the recovery
\* callback.
C21_RetryBoundedByUser ==
    frame.kind = "setter" /\ ~cancelled => Len(attempts) <= 1 + prompts


\* C22: when tx_txt has returned without an error, every byte of the command
\* text and of the CR LF after it has been written to the socket: the socket
\* accepted as many bytes as tx_txt handed to it.
C22_WholeCommandWritten ==
    \A k \in DOMAIN attempts :
        attempts[k].ok => attempts[k].sent = Len(attempts[k].cmd)


\* C23: the client neither clamps nor validates.  For every numeric or string
\* setter, every value (a gain outside 0 to 4096, a waveform that is not in the
\* documented list) and every channel number (0 and 3 as well as 1 and 2), the
\* call sends one command, whose value field is the text of the value as it was
\* passed and whose head carries the channel numbers as they were passed, and it
\* returns normally.
C23_NoClampNoValidation ==
    (frame.kind = "set" /\ frame.m \notin BoolSetters) =>
        /\ Len(attempts) = 1
        /\ attempts[1].cmd = SetHead(frame.m, frame.num_in, frame.num_out) \o " "
                             \o Fmt(frame.v) \o delimiter
        /\ stub.text = FmtChars(frame.v)
        /\ result.kind = "ok"

\* set_kp(3, 0, -0.5) was called: a gain below the documented range, channel
\* numbers that no channel has
C23_Witness ==
    /\ frame.kind = "set"
    /\ frame.m = "set_kp"
    /\ frame.num_in = 3
    /\ frame.num_out = 0
    /\ frame.v = PyFloat(-5)
    /\ attempts[1].cmd = "PID:IN3:OUT0:KP -0.5\r\n"


\* C24: stable naming convention.  The command of a parameter's getter is the
\* command head of its setter, for the same channel numbers, with '?' appended
\* and no value; and a setter's command head differs from the command head of
\* every setter of another parameter and of the same setter for other channel
\* numbers.
C24_NamingConvention ==
    /\ StubAnswered =>
            attempts[1].cmd = SetHead(stub.set, stub.num_in, stub.num_out) \o "?"
                              \o delimiter
    /\ frame.kind = "set" =>
            \A pair \in CatalogPairs, i \in ApiChannels, o \in ApiChannels :
                LET num_in == IF pair[1] \in OutputMethods THEN 0 ELSE i
                IN  <<pair[1], num_in, o>> # <<frame.m, frame.num_in, frame.num_out>>
                        => SetHead(pair[1], num_in, o)
                                # SetHead(frame.m, frame.num_in, frame.num_out)

\* set_setpoint(1, 2, 2.5), then get_setpoint(1, 2) sent 'PID:IN1:OUT2:SETPoint?'
C24_Witness ==
    /\ StubAnswered
    /\ stub.set = "set_setpoint"
    /\ stub.num_in = 1
    /\ stub.num_out = 2
    /\ attempts[1].cmd = "PID:IN1:OUT2:SETPoint?\r\n"


\* MainWindow.reconnect is in progress
InReconnect == pc \in {"reconnect", "prompt"}

\* C25: the recovery callback MainWindow.reconnect.  Its first step is a connect
\* attempt to the configured host, made without a prompt: the host is the same
\* afterwards and the user has answered nothing.  It goes to the prompt only when
\* that attempt failed.  It returns only when a connect attempt has succeeded or
\* the user has cancelled the prompt, and it returns normally: to the setter that
\* called it, which tries again, or to the event loop, never with socket.error.
C25_Reconnect ==
    [][/\ (pc = "reconnect" /\ pc' # pc) =>
            /\ host' = host
            /\ prompts' = prompts
            /\ cancelled' = cancelled
            /\ socket' \in {"connected", "unconnected"}
       /\ (pc = "reconnect" /\ pc' = "prompt") => socket' = "unconnected"
       /\ (InReconnect /\ ~InReconnect') =>
            /\ \/ socket' = "connected"
               \/ cancelled' /\ pc = "prompt" /\ socket' = socket
            /\ pc' \in {"try", "idle"}
            /\ pc' = "idle" => result'.kind = "ok"
      ]_vars

\* the Reconnect button was clicked, the attempt to reach the configured host
\* failed, the user gave an address and the connection to it succeeded
C25_Witness ==
    /\ frame.kind = "reconnect"
    /\ pc = "idle"
    /\ prompts = 1
    /\ ~cancelled
    /\ socket = "connected"
    /\ result.kind = "ok"


\* C26: request/response correlation.  Whatever calls came before on the same
\* client, also getters that ended with socket.timeout, the text a getter
\* decodes and returns is the device's response to the query that getter sent:
\* the value the device holds for the getter's parameter.
C26_OwnResponse ==
    (frame.kind = "get" /\ GetterReturned) => ret = DeviceTexts[frame.m]


\* C27: every boolean setter sends a value field that is 0 or 1, whatever state
\* argument it is called with, the check-box state codes 0 (unchecked) and 2
\* (checked) of the stateChanged signal included.
C27_BooleanValueField ==
    (frame.kind = "setter" /\ Handler(frame.m).calls \in BoolSetters) =>
        \A k \in DOMAIN attempts :
            \E b \in {"0", "1"} :
                attempts[k].cmd =
                    SetHead(Handler(frame.m).calls, frame.num_in, frame.num_out)
                    \o " " \o b \o delimiter


\* C28: the configured host always names the host of the most recent successful
\* connection: the host changes only in a step in which a connection is made, so
\* that a reconnect that ends without a connection (the user cancelled) leaves
\* the host it found, whatever addresses were tried.
C28_HostOfLastConnection ==
    [][host' # host => socket' = "connected"]_vars


\* C29: refreshing the GUI is read-only toward the device.  While the widget
\* groups' update_parameters run (from the button, after a load, or when the
\* groups are constructed), what has been sent since the latest getter was
\* called is that getter's query and nothing else: writing the value it returned
\* into its widget sent no set command.
C29_RefreshReadOnly ==
    (frame.kind \in {"update", "init"} /\ (pc = "rx" \/ got.g # "")) =>
        LET call == IF got.g # "" THEN got ELSE FrameCalls[upd]
        IN  \A k \in DOMAIN attempts :
                attempts[k].cmd = GetCommand(call.g, call.num_in, call.num_out)
                                  \o delimiter

\* MainWindow.update_parameters has run to its end: the value of the last getter
\* was written into its widget
C29_Witness ==
    /\ frame.kind = "update"
    /\ pc = "idle"
    /\ result.kind = "ok"
    /\ upd = Len(UpdateCalls)
    /\ got.g = "get_generator_offset"
    /\ got.val = PyFloat(10)
    /\ Len(attempts) = 1


\* C30: GUI start-up.  While MainWindow.__init__ is at its address prompt there
\* is no connection and nothing has been sent.  From the prompt, the window goes
\* on to build its widget groups, whose constructors send the first commands,
\* only in a step in which a connection attempt succeeded; when the attempt for
\* the address the user confirmed failed it is at the prompt again; and when the
\* user cancels, the program exits at once, having sent nothing.
C30_Startup ==
    /\ [](pc = "startup" => (socket = "None" /\ attempts = <<>> /\ frame = NoFrame))
    /\ []((pc = "exited" /\ cancelled) => (attempts = <<>> /\ frame = NoFrame))
    /\ [][pc = "startup" =>
            /\ pc' \in {"startup", "query", "exited"}
            /\ pc' = "query" <=> socket' = "connected"
            /\ pc' = "query" => (frame'.kind = "init" /\ upd' = 1 /\ attempts' = <<>>)
            /\ pc' = "exited" <=> cancelled'
            /\ pc' = "startup" => (prompts' = prompts + 1 /\ result'.kind = "socket.error")
         ]_vars

\* the user confirmed an address at the start-up prompt, the connection
\* succeeded and the first getter of the first PIDGroup has sent its query
C30_Witness ==
    /\ frame.kind = "init"
    /\ pc = "rx"
    /\ upd = 1
    /\ socket = "connected"
    /\ Len(attempts) = 1

=============================================================================
